---- MODULE Spec2Model ----
(***************************************************************************)
(* Model of share/blob.go: the Blob value type, its validating            *)
(* constructors, its two encodings (protobuf and JSON through the         *)
(* BlobProto record), ordering, and the share-splitter boundary call.     *)
(*                                                                         *)
(* Go values are represented as follows.                                   *)
(*   []byte      [nil : BOOLEAN, b : sequence of 0..255]; a nil slice and  *)
(*               an empty non-nil slice are different values of length 0.  *)
(*   Namespace   [data : sequence of bytes]; data[1] is the version, the   *)
(*               rest is the id.  The zero Namespace has no data.          *)
(*   Blob        [namespace, data, shareVersion, signer]                   *)
(*   *Blob       an address into heap (0 is nil) in the state, and         *)
(*               [nil : BOOLEAN, v : Blob] in the value of an operator.    *)
(*   error       a sequence of strings: <<>> is nil, fmt.Errorf("..%w")    *)
(*               puts its context in front of the wrapped error.           *)
(***************************************************************************)
EXTENDS Integers, Sequences, FiniteSets

VARIABLES
  heap,       \* the Blob objects that exist, by address 1..Len(heap)
  made,       \* made[a]: object a came out of a successful construction or decode
  prev,       \* heap as it was before the last operation
  op,         \* the operation that ran last ("init" before any)
  recv,       \* address of the receiver of the last method call, 0 if none
  src,        \* address of the blob whose encoding the last decode was given, 0 if none
  arg,        \* arguments of the last NewBlob / NewV0Blob / NewV1Blob call
  pb,         \* *BlobProto given to the last NewBlobFromProto call
  wire,       \* protobuf payload: output of Marshal, input of UnmarshalBlob
  text,       \* JSON document: output of MarshalJSON, input of UnmarshalJSON
  ret,        \* (blob address, error, panicked) of the last call
  val,        \* value returned by the last accessor / predicate call
  blobs,      \* the slice SortBlobs was called on, as it is after the call
  before,     \* the same slice as it was before the call
  splitters,  \* number of splitters created so far
  splitter,   \* the splitter the last ToShares call used, as the call left it
  shares      \* shares returned by the last ToShares call

vars == <<heap, made, prev, op, recv, src, arg, pb, wire, text, ret, val, blobs,
          before, splitters, splitter, shares>>

-----------------------------------------------------------------------------
(* Bounds of the model. *)

MaxObjs == 2
MaxBlobs == 3
MaxSplitters == 2

-----------------------------------------------------------------------------
(* Constants of package share that blob.go uses. *)

NamespaceVersionZero == 0
NamespaceVersionMax == 255
NamespaceIDSize == 28
NamespaceVersionZeroPrefixSize == 18
ShareVersionZero == 0
ShareVersionOne == 1
MaxShareVersion == 127
SignerSize == 20

-----------------------------------------------------------------------------
(* Byte slices. *)

NilBytes == [nil |-> TRUE, b |-> <<>>]

Bytes(s) == [nil |-> FALSE, b |-> s]

len(x) == Len(x.b)

Rep(c, n) == [i \in 1..n |-> c]

uint8(n) == n % 256

(* Errors. *)

NoErr == <<>>

EmptyDataError == <<"data can not be empty">>
EmptyNamespaceError == <<"namespace can not be empty">>
UnsupportedNamespaceVersionError == <<"namespace version must be 0">>
SignerNotAllowedError == <<"share version 0 does not support signer">>
SignerSizeError == <<"share version 1 requires signer of size SignerSize bytes">>
UnsupportedShareVersionError == <<"share version not supported. Please use 0 or 1">>
NamespaceVersionRangeError == <<"namespace version can not be greater than MaxNamespaceVersion">>
ShareVersionRangeError == <<"share version can not be greater than MaxShareVersion">>

Wrap(context, err) == <<context>> \o err

-----------------------------------------------------------------------------
(* Namespace: the collaborator type blob.go is written against. *)

EmptyNamespace == [data |-> <<>>]

NamespaceIsEmpty(ns) == Len(ns.data) = 0

NamespaceVersion(ns) == ns.data[1]

NamespaceID(ns) == Bytes(SubSeq(ns.data, 2, Len(ns.data)))

\* bytes.Compare of the two namespaces' data: -1, 0 or 1
RECURSIVE BytesCompare(_, _)
BytesCompare(x, y) ==
  IF x = <<>> /\ y = <<>> THEN 0
  ELSE IF x = <<>> THEN -1
  ELSE IF y = <<>> THEN 1
  ELSE IF Head(x) < Head(y) THEN -1
  ELSE IF Head(x) > Head(y) THEN 1
  ELSE BytesCompare(Tail(x), Tail(y))

NamespaceCompare(n, other) == BytesCompare(n.data, other.data)

\* NewNamespace builds version||id and validates it
NewNamespace(version, id) ==
  LET ns == [data |-> <<version>> \o id.b] IN
  IF version # NamespaceVersionZero /\ version # NamespaceVersionMax
    THEN [ns |-> EmptyNamespace, err |-> <<"unsupported namespace version">>]
  ELSE IF len(id) # NamespaceIDSize
    THEN [ns |-> EmptyNamespace, err |-> <<"unsupported namespace id length">>]
  ELSE IF /\ version = NamespaceVersionZero
          /\ SubSeq(id.b, 1, NamespaceVersionZeroPrefixSize)
               # Rep(0, NamespaceVersionZeroPrefixSize)
    THEN [ns |-> EmptyNamespace, err |-> <<"unsupported namespace id with version 0">>]
  ELSE [ns |-> ns, err |-> NoErr]

-----------------------------------------------------------------------------
(* Blob and its constructors. *)

ZeroBlob ==
  [namespace |-> EmptyNamespace, data |-> NilBytes, shareVersion |-> 0,
   signer |-> NilBytes]

NilBlob == [nil |-> TRUE, v |-> ZeroBlob]

Ref(blob) == [nil |-> FALSE, v |-> blob]

Fail(err) == [blob |-> NilBlob, err |-> err, panic |-> FALSE]

Ok(blob) == [blob |-> Ref(blob), err |-> NoErr, panic |-> FALSE]

\* a nil pointer dereference: the call neither returns a blob nor an error
Panic == [blob |-> NilBlob, err |-> NoErr, panic |-> TRUE]

\* NewBlob with the namespace checks moved in front of the data check
NewBlob_NamespaceFirst(ns, data, shareVersion, signer) ==
  IF NamespaceIsEmpty(ns) THEN Fail(EmptyNamespaceError)
  ELSE IF NamespaceVersion(ns) # NamespaceVersionZero
    THEN Fail(UnsupportedNamespaceVersionError)
  ELSE IF len(data) = 0 THEN Fail(EmptyDataError)
  ELSE IF shareVersion = ShareVersionZero
    THEN IF ~signer.nil THEN Fail(SignerNotAllowedError)
         ELSE Ok([namespace |-> ns, data |-> data, shareVersion |-> shareVersion,
                  signer |-> signer])
  ELSE IF shareVersion = ShareVersionOne
    THEN IF len(signer) # SignerSize THEN Fail(SignerSizeError)
         ELSE Ok([namespace |-> ns, data |-> data, shareVersion |-> shareVersion,
                  signer |-> signer])
  ELSE Fail(UnsupportedShareVersionError)

\* NewBlob without the check that data is not empty
NewBlob_NoDataCheck(ns, data, shareVersion, signer) ==
  IF NamespaceIsEmpty(ns) THEN Fail(EmptyNamespaceError)
  ELSE IF NamespaceVersion(ns) # NamespaceVersionZero
    THEN Fail(UnsupportedNamespaceVersionError)
  ELSE IF shareVersion = ShareVersionZero
    THEN IF ~signer.nil THEN Fail(SignerNotAllowedError)
         ELSE Ok([namespace |-> ns, data |-> data, shareVersion |-> shareVersion,
                  signer |-> signer])
  ELSE IF shareVersion = ShareVersionOne
    THEN IF len(signer) # SignerSize THEN Fail(SignerSizeError)
         ELSE Ok([namespace |-> ns, data |-> data, shareVersion |-> shareVersion,
                  signer |-> signer])
  ELSE Fail(UnsupportedShareVersionError)

NewBlob(ns, data, shareVersion, signer) ==
  IF len(data) = 0 THEN Fail(EmptyDataError)
  ELSE IF NamespaceIsEmpty(ns) THEN Fail(EmptyNamespaceError)
  ELSE IF NamespaceVersion(ns) # NamespaceVersionZero
    THEN Fail(UnsupportedNamespaceVersionError)
  ELSE IF shareVersion = ShareVersionZero
    THEN IF ~signer.nil THEN Fail(SignerNotAllowedError)
         ELSE Ok([namespace |-> ns, data |-> data, shareVersion |-> shareVersion,
                  signer |-> signer])
  ELSE IF shareVersion = ShareVersionOne
    THEN IF len(signer) # SignerSize THEN Fail(SignerSizeError)
         ELSE Ok([namespace |-> ns, data |-> data, shareVersion |-> shareVersion,
                  signer |-> signer])
  ELSE Fail(UnsupportedShareVersionError)

NewV0Blob(ns, data) == NewBlob(ns, data, 0, NilBytes)

NewV1Blob(ns, data, signer) == NewBlob(ns, data, 1, signer)

-----------------------------------------------------------------------------
(* BlobProto, the generated record both encodings go through, and the two  *)
(* codecs (proto.Marshal / proto.Unmarshal, json.Marshal / json.Unmarshal) *)
(* at the level of the fields they write and read.  An encoded message is  *)
(* [malformed, fields]: malformed stands for bytes the codec cannot parse, *)
(* fields is the sequence of (key, kind, value) entries in the message.    *)

ZeroProto ==
  [NamespaceId |-> NilBytes, Data |-> NilBytes, ShareVersion |-> 0,
   NamespaceVersion |-> 0, Signer |-> NilBytes]

NilProto == [nil |-> TRUE, v |-> ZeroProto]

ProtoRef(p) == [nil |-> FALSE, v |-> p]

Field(key, kind, n, b) == [key |-> key, kind |-> kind, n |-> n, b |-> b]

Message(fields) == [malformed |-> FALSE, fields |-> fields]

Malformed == [malformed |-> TRUE, fields |-> <<>>]

\* proto3 fields without presence and encoding/json's omitempty both leave
\* out a zero number and a byte string of length 0
NonZero(f) == f.n # 0 \/ f.b # <<>>

protoMarshal(p) ==
  Message(SelectSeq(
    << Field("namespace_id", "bytes", 0, p.NamespaceId.b),
       Field("data", "bytes", 0, p.Data.b),
       Field("share_version", "varint", p.ShareVersion, <<>>),
       Field("namespace_version", "varint", p.NamespaceVersion, <<>>),
       Field("signer", "bytes", 0, p.Signer.b) >>, NonZero))

\* append([]byte(nil), v...): a field present with length 0 decodes to nil
CloneBytes(b) == IF b = <<>> THEN NilBytes ELSE Bytes(b)

\* a known field of the right wire type is stored (the last occurrence wins);
\* anything else is kept as an unknown field.  The varints of the model are
\* below 2^31, where the conversion to uint32 changes nothing.
protoSet(p, f) ==
  IF f.key = "namespace_id" /\ f.kind = "bytes"
    THEN [p EXCEPT !.NamespaceId = CloneBytes(f.b)]
  ELSE IF f.key = "data" /\ f.kind = "bytes"
    THEN [p EXCEPT !.Data = CloneBytes(f.b)]
  ELSE IF f.key = "share_version" /\ f.kind = "varint"
    THEN [p EXCEPT !.ShareVersion = f.n]
  ELSE IF f.key = "namespace_version" /\ f.kind = "varint"
    THEN [p EXCEPT !.NamespaceVersion = f.n]
  ELSE IF f.key = "signer" /\ f.kind = "bytes"
    THEN [p EXCEPT !.Signer = CloneBytes(f.b)]
  ELSE p

RECURSIVE protoMerge(_, _)
protoMerge(p, fields) ==
  IF fields = <<>> THEN p ELSE protoMerge(protoSet(p, Head(fields)), Tail(fields))

protoUnmarshal(m) ==
  IF m.malformed
    THEN [pb |-> ZeroProto, err |-> <<"proto: cannot parse invalid wire-format data">>]
    ELSE [pb |-> protoMerge(ZeroProto, m.fields), err |-> NoErr]

jsonMarshal(p) ==
  Message(SelectSeq(
    << Field("namespace_id", "string", 0, p.NamespaceId.b),
       Field("data", "string", 0, p.Data.b),
       Field("share_version", "number", p.ShareVersion, <<>>),
       Field("namespace_version", "number", p.NamespaceVersion, <<>>),
       Field("signer", "string", 0, p.Signer.b) >>, NonZero))

JsonTypeError == <<"json: cannot unmarshal value into Go struct field">>

\* a base64 string decodes to a non-nil slice (also when it is ""), null to
\* nil / no change, a number must fit uint32 ("bignumber" is a number literal
\* above 2^32-1); st is [pb, err] and keeps the first error
jsonBytes(f) ==
  IF f.kind = "string" THEN [v |-> Bytes(f.b), ok |-> TRUE]
  ELSE IF f.kind = "null" THEN [v |-> NilBytes, ok |-> TRUE]
  ELSE [v |-> NilBytes, ok |-> FALSE]

jsonUint32(f, cur) ==
  IF f.kind = "number" THEN [v |-> f.n, ok |-> TRUE]
  ELSE IF f.kind = "null" THEN [v |-> cur, ok |-> TRUE]
  ELSE [v |-> cur, ok |-> FALSE]

jsonSet(st, f) ==
  LET p == st.pb
      bad == [st EXCEPT !.err = IF st.err = NoErr THEN JsonTypeError ELSE st.err]
  IN
  IF f.key = "namespace_id"
    THEN IF jsonBytes(f).ok THEN [st EXCEPT !.pb.NamespaceId = jsonBytes(f).v] ELSE bad
  ELSE IF f.key = "data"
    THEN IF jsonBytes(f).ok THEN [st EXCEPT !.pb.Data = jsonBytes(f).v] ELSE bad
  ELSE IF f.key = "share_version"
    THEN IF jsonUint32(f, p.ShareVersion).ok
           THEN [st EXCEPT !.pb.ShareVersion = jsonUint32(f, p.ShareVersion).v] ELSE bad
  ELSE IF f.key = "namespace_version"
    THEN IF jsonUint32(f, p.NamespaceVersion).ok
           THEN [st EXCEPT !.pb.NamespaceVersion = jsonUint32(f, p.NamespaceVersion).v]
           ELSE bad
  ELSE IF f.key = "signer"
    THEN IF jsonBytes(f).ok THEN [st EXCEPT !.pb.Signer = jsonBytes(f).v] ELSE bad
  ELSE st

RECURSIVE jsonMerge(_, _)
jsonMerge(st, fields) ==
  IF fields = <<>> THEN st ELSE jsonMerge(jsonSet(st, Head(fields)), Tail(fields))

jsonUnmarshal(m) ==
  IF m.malformed
    THEN [pb |-> ZeroProto, err |-> <<"json: invalid character">>]
    ELSE jsonMerge([pb |-> ZeroProto, err |-> NoErr], m.fields)

-----------------------------------------------------------------------------
(* Encoding and decoding of a Blob. *)

\* NewBlobFromProto that fills the blob in itself instead of calling NewBlob
NewBlobFromProto_Unvalidated(p) ==
  IF p.nil THEN Panic
  ELSE IF p.v.NamespaceVersion > NamespaceVersionMax
    THEN Fail(NamespaceVersionRangeError)
  ELSE IF p.v.ShareVersion > MaxShareVersion
    THEN Fail(ShareVersionRangeError)
  ELSE LET n == NewNamespace(uint8(p.v.NamespaceVersion), p.v.NamespaceId) IN
       IF n.err # NoErr THEN Fail(Wrap("invalid namespace", n.err))
       ELSE Ok([namespace |-> n.ns, data |-> p.v.Data,
                shareVersion |-> uint8(p.v.ShareVersion), signer |-> p.v.Signer])

\* NewBlobFromProto without the two range checks
NewBlobFromProto_NoRange(p) ==
  IF p.nil THEN Panic
  ELSE LET n == NewNamespace(uint8(p.v.NamespaceVersion), p.v.NamespaceId) IN
       IF n.err # NoErr THEN Fail(Wrap("invalid namespace", n.err))
       ELSE NewBlob(n.ns, p.v.Data, uint8(p.v.ShareVersion), p.v.Signer)

NewBlobFromProto(p) ==
  IF p.nil THEN Panic
  ELSE IF p.v.NamespaceVersion > NamespaceVersionMax
    THEN Fail(NamespaceVersionRangeError)
  ELSE IF p.v.ShareVersion > MaxShareVersion
    THEN Fail(ShareVersionRangeError)
  ELSE LET n == NewNamespace(uint8(p.v.NamespaceVersion), p.v.NamespaceId) IN
       IF n.err # NoErr THEN Fail(Wrap("invalid namespace", n.err))
       ELSE NewBlob(n.ns, p.v.Data, uint8(p.v.ShareVersion), p.v.Signer)

UnmarshalBlob(blob) ==
  LET u == protoUnmarshal(blob) IN
  IF u.err # NoErr THEN Fail(Wrap("failed to unmarshal blob", u.err))
  ELSE NewBlobFromProto(ProtoRef(u.pb))

\* the BlobProto literal without its Signer field
BlobProtoOf_NoSigner(b) ==
  [NamespaceId |-> NamespaceID(b.namespace),
   NamespaceVersion |-> NamespaceVersion(b.namespace),
   ShareVersion |-> b.shareVersion,
   Data |-> b.data,
   Signer |-> NilBytes]

\* the BlobProto literal Marshal and MarshalJSON both build
BlobProtoOf(b) ==
  [NamespaceId |-> NamespaceID(b.namespace),
   NamespaceVersion |-> NamespaceVersion(b.namespace),
   ShareVersion |-> b.shareVersion,
   Data |-> b.data,
   Signer |-> b.signer]

Marshal(b) == protoMarshal(BlobProtoOf(b))

MarshalJSON(b) == jsonMarshal(BlobProtoOf(b))

\* UnmarshalJSON that resets the receiver when it fails
UnmarshalJSON_ClearsOnError(b, bb) ==
  LET u == jsonUnmarshal(bb) IN
  IF u.err # NoErr THEN [b |-> ZeroBlob, err |-> u.err]
  ELSE LET r == NewBlobFromProto(ProtoRef(u.pb)) IN
       IF r.err # NoErr THEN [b |-> ZeroBlob, err |-> r.err]
       ELSE [b |-> r.blob.v, err |-> NoErr]

\* UnmarshalJSON that copies data and signer into the receiver before it validates
UnmarshalJSON_Partial(b, bb) ==
  LET u == jsonUnmarshal(bb) IN
  IF u.err # NoErr THEN [b |-> b, err |-> u.err]
  ELSE LET r == NewBlobFromProto(ProtoRef(u.pb)) IN
       IF r.err # NoErr
         THEN [b |-> [b EXCEPT !.data = u.pb.Data, !.signer = u.pb.Signer], err |-> r.err]
       ELSE [b |-> r.blob.v, err |-> NoErr]

\* the value of the receiver after the call, and the error returned
UnmarshalJSON(b, bb) ==
  LET u == jsonUnmarshal(bb) IN
  IF u.err # NoErr THEN [b |-> b, err |-> u.err]
  ELSE LET r == NewBlobFromProto(ProtoRef(u.pb)) IN
       IF r.err # NoErr THEN [b |-> b, err |-> r.err]
       ELSE [b |-> r.blob.v, err |-> NoErr]

-----------------------------------------------------------------------------
(* Accessors, ordering and emptiness. *)

Namespace(b) == b.namespace

ShareVersion(b) == b.shareVersion

Signer(b) == b.signer

Data(b) == b.data

DataLen(b) == len(b.data)

Compare(b, other) == NamespaceCompare(b.namespace, other.namespace)

IsEmpty(b) == len(b.data) = 0

-----------------------------------------------------------------------------
(* SortBlobs.  A slice of *Blob is a sequence of addresses into h.  For a  *)
(* slice of at most 20 elements sort.SliceStable is one insertion sort.    *)

Swap(s, i, j) == [s EXCEPT ![i] = s[j], ![j] = s[i]]

\* the closure with <= in place of <
Less_OrEqual(h, s, i, j) == Compare(h[s[i]], h[s[j]]) <= 0

\* the closure given to sort.SliceStable
Less(h, s, i, j) == Compare(h[s[i]], h[s[j]]) < 0

RECURSIVE insertDown(_, _, _)
insertDown(h, s, j) ==
  IF j > 1 /\ Less(h, s, j, j - 1) THEN insertDown(h, Swap(s, j, j - 1), j - 1) ELSE s

RECURSIVE insertionSort(_, _, _)
insertionSort(h, s, i) ==
  IF i > Len(s) THEN s ELSE insertionSort(h, insertDown(h, s, i), i + 1)

SliceStable(h, s) == insertionSort(h, s, 2)

SortBlobs(h, s) == SliceStable(h, s)

-----------------------------------------------------------------------------
(* The sparse share splitter, as far as ToShares sees it: Write may fail   *)
(* (fault is the error it then returns, NoErr when it does not fail) and   *)
(* Export returns the shares written so far, in order.  A splitter has an  *)
(* identity and counts the Write and Export calls it received.             *)

NilShares == [nil |-> TRUE, s |-> <<>>]

NewSparseShareSplitter(id) ==
  [id |-> id, shares |-> <<>>, writes |-> 0, exports |-> 0, err |-> NoErr]

NoSplitter == NewSparseShareSplitter(0)

SharesOf(b) ==
  [i \in 1..len(b.data) |-> [namespace |-> b.namespace, index |-> i, byte |-> b.data.b[i]]]

Write(sp, b, fault) ==
  IF fault # NoErr
    THEN [sp |-> [sp EXCEPT !.writes = @ + 1, !.err = fault], err |-> fault]
    ELSE [sp |-> [sp EXCEPT !.writes = @ + 1, !.shares = @ \o SharesOf(b)],
          err |-> NoErr]

Export(sp) ==
  [sp |-> [sp EXCEPT !.exports = @ + 1], shares |-> [nil |-> FALSE, s |-> sp.shares]]

\* ToShares that calls Export whether Write failed or not
ToShares_ExportOnError(b, id, fault) ==
  LET sp == NewSparseShareSplitter(id)
      w == Write(sp, b, fault)
  IN [shares |-> Export(w.sp).shares, err |-> w.err, splitter |-> Export(w.sp).sp]

\* the shares and error returned, and the splitter the call made, as it left
\* it; id is the identity the new splitter gets
ToShares(b, id, fault) ==
  LET sp == NewSparseShareSplitter(id)
      w == Write(sp, b, fault)
  IN IF w.err # NoErr
       THEN [shares |-> NilShares, err |-> w.err, splitter |-> w.sp]
       ELSE [shares |-> Export(w.sp).shares, err |-> NoErr, splitter |-> Export(w.sp).sp]

-----------------------------------------------------------------------------
(* Inputs. *)

IdA == Rep(0, NamespaceVersionZeroPrefixSize) \o Rep(1, NamespaceIDSize - NamespaceVersionZeroPrefixSize)
IdB == Rep(0, NamespaceVersionZeroPrefixSize) \o Rep(2, NamespaceIDSize - NamespaceVersionZeroPrefixSize)
IdParity == Rep(255, NamespaceIDSize)

NsA == NewNamespace(NamespaceVersionZero, Bytes(IdA)).ns
NsB == NewNamespace(NamespaceVersionZero, Bytes(IdB)).ns
NsParity == NewNamespace(NamespaceVersionMax, Bytes(IdParity)).ns

\* what a caller can pass to the constructors
AllNamespaces == {EmptyNamespace, NsA, NsB, NsParity}
AllData == {NilBytes, Bytes(<<>>), Bytes(<<7>>), Bytes(<<7, 8>>)}
AllShareVersions == {0, 1, 2, 127, 128, 255}
AllSigners ==
  {NilBytes, Bytes(<<>>), Bytes(Rep(9, SignerSize - 1)), Bytes(Rep(9, SignerSize)),
   Bytes(Rep(3, SignerSize)), Bytes(Rep(9, SignerSize + 1))}

\* BlobProto records: the version fields are uint32
AllIds ==
  {NilBytes, Bytes(IdA), Bytes(IdB), Bytes(IdParity), Bytes(Rep(1, NamespaceIDSize)),
   Bytes(Rep(0, NamespaceIDSize - 1))}
AllNamespaceVersions == {0, 1, 255, 256, 2147483647}
AllWideShareVersions == {0, 1, 2, 127, 128, 256, 257}

AllProtos ==
  [NamespaceId : AllIds, Data : AllData, ShareVersion : AllWideShareVersions,
   NamespaceVersion : AllNamespaceVersions, Signer : AllSigners]

\* every blob the constructor gives for these inputs
AllBlobs ==
  {NewBlob(ns, d, v, sg).blob.v :
     <<ns, d, v, sg>> \in
       {t \in AllNamespaces \X AllData \X AllShareVersions \X AllSigners :
          NewBlob(t[1], t[2], t[3], t[4]).err = NoErr}}

\* payloads no Marshal call produces
OddPayloads ==
  LET good == protoMarshal(BlobProtoOf(NewV0Blob(NsA, Bytes(<<7>>)).blob.v)).fields IN
  { Malformed,
    Message(good \o <<Field("signer", "bytes", 0, <<>>)>>),
    Message(good \o <<Field("unknown", "varint", 5, <<>>)>>),
    Message(good \o <<Field("signer", "varint", 5, <<>>)>>),
    Message(good \o <<Field("share_version", "varint", 256, <<>>)>>),
    Message(good \o <<Field("namespace_version", "varint", 256, <<>>)>>),
    Message(good \o <<Field("data", "bytes", 0, <<>>)>>) }

AllPayloads == {protoMarshal(p) : p \in AllProtos} \cup OddPayloads

\* documents no MarshalJSON call produces
OddTexts ==
  LET good == jsonMarshal(BlobProtoOf(NewV0Blob(NsA, Bytes(<<7>>)).blob.v)).fields IN
  { Malformed,
    Message(good \o <<Field("signer", "string", 0, <<>>)>>),
    Message(good \o <<Field("signer", "null", 0, <<>>)>>),
    Message(good \o <<Field("signer", "number", 5, <<>>)>>),
    Message(good \o <<Field("unknown", "number", 5, <<>>)>>),
    Message(good \o <<Field("share_version", "bignumber", 1, <<>>)>>),
    Message(good \o <<Field("share_version", "string", 0, <<1>>)>>),
    Message(good \o <<Field("share_version", "number", 256, <<>>)>>),
    Message(good \o <<Field("namespace_version", "number", 256, <<>>)>>),
    Message(good \o <<Field("data", "string", 0, <<>>)>>) }

AllTexts == {jsonMarshal(p) : p \in AllProtos} \cup OddTexts

\* the small sets the life of a few blobs is explored with
SomeNamespaces == {EmptyNamespace, NsA}
SomeData == {NilBytes, Bytes(<<7, 8>>)}
SomeShareVersions == {0, 1}
SomeSigners == {NilBytes, Bytes(Rep(9, SignerSize))}

SomeBlobs ==
  {NewBlob(ns, d, v, sg).blob.v :
     <<ns, d, v, sg>> \in
       {t \in SomeNamespaces \X SomeData \X SomeShareVersions \X SomeSigners :
          NewBlob(t[1], t[2], t[3], t[4]).err = NoErr}}

SomeProtos ==
  {NilProto} \cup {ProtoRef(BlobProtoOf(b)) : b \in SomeBlobs}
  \cup {ProtoRef([BlobProtoOf(b) EXCEPT !.ShareVersion = 256]) : b \in SomeBlobs}

SomePayloads ==
  {Malformed, Message(<<>>)} \cup {Marshal(b) : b \in SomeBlobs}

SomeTexts ==
  {Malformed, Message(<<Field("share_version", "number", 257, <<>>)>>)}
  \cup {MarshalJSON(b) : b \in SomeBlobs}
  \cup {Message(MarshalJSON(b).fields \o <<Field("signer", "string", 0, <<>>)>>) :
          b \in SomeBlobs}

Faults == {NoErr, <<"sparse share splitter: write failed">>}

\* the slices of length at most n over the addresses in A
Slices(A, n) == UNION {[1..k -> A] : k \in 0..n}

\* those in which no address occurs twice
Distinct(A, n) == {s \in Slices(A, n) : \A i, j \in DOMAIN s : s[i] = s[j] => i = j}

\* the blobs SortBlobs is tried on: two with each of two namespaces
SortedBlobs ==
  {NewV0Blob(NsA, Bytes(<<7>>)).blob.v, NewV0Blob(NsA, Bytes(<<7, 8>>)).blob.v,
   NewV0Blob(NsB, Bytes(<<7>>)).blob.v,
   NewV1Blob(NsB, Bytes(<<7>>), Bytes(Rep(9, SignerSize))).blob.v}

-----------------------------------------------------------------------------
(* State. *)

NoArg == [ns |-> EmptyNamespace, data |-> NilBytes, shareVersion |-> 0, signer |-> NilBytes]
NoMsg == Message(<<>>)
NoRet == [blob |-> 0, err |-> NoErr, panic |-> FALSE]
NoVal == [namespace |-> EmptyNamespace, n |-> 0, bytes |-> NilBytes, flag |-> FALSE]

Objs == 1..Len(heap)
Made == {a \in Objs : made[a]}

Init ==
  /\ heap = <<>>
  /\ made = <<>>
  /\ prev = <<>>
  /\ op = "init"
  /\ recv = 0
  /\ src = 0
  /\ arg = NoArg
  /\ pb = NilProto
  /\ wire = NoMsg
  /\ text = NoMsg
  /\ ret = NoRet
  /\ val = NoVal
  /\ blobs = <<>>
  /\ before = <<>>
  /\ splitters = 0
  /\ splitter = NoSplitter
  /\ shares = NilShares

\* what a call leaves at its default
NoArgs == arg' = NoArg /\ pb' = NilProto
NoCodec == wire' = NoMsg /\ text' = NoMsg
NoValue == val' = NoVal
NoSort == blobs' = <<>> /\ before' = <<>>
NoSplit == shares' = NilShares /\ splitter' = NoSplitter /\ UNCHANGED splitters
SameHeap == prev' = heap /\ UNCHANGED <<heap, made>>

\* a call of a function that returns (*Blob, error): a blob returned is a new object
Returns(name, r) ==
  /\ r.blob.nil \/ Len(heap) < MaxObjs
  /\ op' = name
  /\ recv' = 0
  /\ heap' = IF r.blob.nil THEN heap ELSE Append(heap, r.blob.v)
  /\ made' = IF r.blob.nil THEN made ELSE Append(made, TRUE)
  /\ prev' = heap
  /\ ret' = [blob |-> IF r.blob.nil THEN 0 ELSE Len(heap) + 1, err |-> r.err,
             panic |-> r.panic]

\* a method call on the object at address a that leaves every object alone
Reads(name, a, err) ==
  /\ op' = name
  /\ recv' = a
  /\ src' = 0
  /\ ret' = [blob |-> 0, err |-> err, panic |-> FALSE]
  /\ SameHeap

-----------------------------------------------------------------------------
(* The operations, each on given arguments. *)

\* var b Blob: an object holding the zero value
DeclareBlob ==
  /\ Len(heap) < MaxObjs
  /\ heap' = Append(heap, ZeroBlob)
  /\ made' = Append(made, FALSE)
  /\ prev' = heap
  /\ op' = "Declare"
  /\ recv' = 0
  /\ src' = 0
  /\ ret' = [NoRet EXCEPT !.blob = Len(heap) + 1]
  /\ NoArgs /\ NoCodec /\ NoValue /\ NoSort /\ NoSplit

CallNewBlob(ns, data, shareVersion, signer) ==
  /\ Returns("NewBlob", NewBlob(ns, data, shareVersion, signer))
  /\ src' = 0
  /\ arg' = [ns |-> ns, data |-> data, shareVersion |-> shareVersion, signer |-> signer]
  /\ pb' = NilProto
  /\ NoCodec /\ NoValue /\ NoSort /\ NoSplit

CallNewV0Blob(ns, data) ==
  /\ Returns("NewV0Blob", NewV0Blob(ns, data))
  /\ src' = 0
  /\ arg' = [NoArg EXCEPT !.ns = ns, !.data = data]
  /\ pb' = NilProto
  /\ NoCodec /\ NoValue /\ NoSort /\ NoSplit

CallNewV1Blob(ns, data, signer) ==
  /\ Returns("NewV1Blob", NewV1Blob(ns, data, signer))
  /\ src' = 0
  /\ arg' = [ns |-> ns, data |-> data, shareVersion |-> 1, signer |-> signer]
  /\ pb' = NilProto
  /\ NoCodec /\ NoValue /\ NoSort /\ NoSplit

CallNewBlobFromProto(p) ==
  /\ Returns("NewBlobFromProto", NewBlobFromProto(p))
  /\ src' = 0
  /\ arg' = NoArg
  /\ pb' = p
  /\ NoCodec /\ NoValue /\ NoSort /\ NoSplit

\* from is the address of the blob whose Marshal gave the payload, or 0
CallUnmarshalBlob(payload, from) ==
  /\ Returns("UnmarshalBlob", UnmarshalBlob(payload))
  /\ src' = from
  /\ wire' = payload
  /\ text' = NoMsg
  /\ NoArgs /\ NoValue /\ NoSort /\ NoSplit

CallMarshal(a) ==
  /\ Reads("Marshal", a, NoErr)
  /\ wire' = Marshal(heap[a])
  /\ text' = NoMsg
  /\ NoArgs /\ NoValue /\ NoSort /\ NoSplit

CallMarshalJSON(a) ==
  /\ Reads("MarshalJSON", a, NoErr)
  /\ text' = MarshalJSON(heap[a])
  /\ wire' = NoMsg
  /\ NoArgs /\ NoValue /\ NoSort /\ NoSplit

\* *b = *blob overwrites the receiver, and only when decoding succeeded
CallUnmarshalJSON(a, bb, from) ==
  LET r == UnmarshalJSON(heap[a], bb) IN
  /\ op' = "UnmarshalJSON"
  /\ recv' = a
  /\ src' = from
  /\ heap' = [heap EXCEPT ![a] = r.b]
  /\ made' = [made EXCEPT ![a] = @ \/ r.err = NoErr]
  /\ prev' = heap
  /\ ret' = [blob |-> 0, err |-> r.err, panic |-> FALSE]
  /\ text' = bb
  /\ wire' = NoMsg
  /\ NoArgs /\ NoValue /\ NoSort /\ NoSplit

CallNamespace(a) ==
  /\ Reads("Namespace", a, NoErr)
  /\ val' = [NoVal EXCEPT !.namespace = Namespace(heap[a])]
  /\ NoArgs /\ NoCodec /\ NoSort /\ NoSplit

CallShareVersion(a) ==
  /\ Reads("ShareVersion", a, NoErr)
  /\ val' = [NoVal EXCEPT !.n = ShareVersion(heap[a])]
  /\ NoArgs /\ NoCodec /\ NoSort /\ NoSplit

CallSigner(a) ==
  /\ Reads("Signer", a, NoErr)
  /\ val' = [NoVal EXCEPT !.bytes = Signer(heap[a])]
  /\ NoArgs /\ NoCodec /\ NoSort /\ NoSplit

CallData(a) ==
  /\ Reads("Data", a, NoErr)
  /\ val' = [NoVal EXCEPT !.bytes = Data(heap[a])]
  /\ NoArgs /\ NoCodec /\ NoSort /\ NoSplit

CallDataLen(a) ==
  /\ Reads("DataLen", a, NoErr)
  /\ val' = [NoVal EXCEPT !.n = DataLen(heap[a])]
  /\ NoArgs /\ NoCodec /\ NoSort /\ NoSplit

\* other is the address of the argument
CallCompare(a, other) ==
  /\ Reads("Compare", a, NoErr)
  /\ val' = [NoVal EXCEPT !.n = Compare(heap[a], heap[other])]
  /\ NoArgs /\ NoCodec /\ NoSort /\ NoSplit

CallIsEmpty(a) ==
  /\ Reads("IsEmpty", a, NoErr)
  /\ val' = [NoVal EXCEPT !.flag = IsEmpty(heap[a])]
  /\ NoArgs /\ NoCodec /\ NoSort /\ NoSplit

CallSortBlobs(s) ==
  /\ op' = "SortBlobs"
  /\ recv' = 0
  /\ src' = 0
  /\ ret' = NoRet
  /\ before' = s
  /\ blobs' = SortBlobs(heap, s)
  /\ SameHeap
  /\ NoArgs /\ NoCodec /\ NoValue /\ NoSplit

\* fault is what the splitter's Write returns in this call
CallToShares(a, fault) ==
  LET r == ToShares(heap[a], splitters + 1, fault) IN
  /\ splitters < MaxSplitters
  /\ Reads("ToShares", a, r.err)
  /\ shares' = r.shares
  /\ splitter' = r.splitter
  /\ splitters' = splitters + 1
  /\ NoArgs /\ NoCodec /\ NoValue /\ NoSort

-----------------------------------------------------------------------------
(* The life of a few blobs: any sequence of operations, on few arguments.  *)
(* The methods that read the namespace's version and id (Marshal,          *)
(* MarshalJSON, ToShares) and SortBlobs are called on constructed blobs.   *)

NewBlobCall ==
  \E ns \in SomeNamespaces, d \in SomeData, v \in SomeShareVersions, sg \in SomeSigners :
    CallNewBlob(ns, d, v, sg)

NewV0BlobCall == \E ns \in SomeNamespaces, d \in SomeData : CallNewV0Blob(ns, d)

NewV1BlobCall ==
  \E ns \in SomeNamespaces, d \in SomeData, sg \in SomeSigners : CallNewV1Blob(ns, d, sg)

NewBlobFromProtoCall == \E p \in SomeProtos : CallNewBlobFromProto(p)

UnmarshalBlobCall == \E m \in SomePayloads : CallUnmarshalBlob(m, 0)

UnmarshalMarshalled == op = "Marshal" /\ CallUnmarshalBlob(wire, recv)

MarshalCall == \E a \in Made : CallMarshal(a)

MarshalJSONCall == \E a \in Made : CallMarshalJSON(a)

UnmarshalJSONCall == \E a \in Objs, m \in SomeTexts : CallUnmarshalJSON(a, m, 0)

UnmarshalJSONMarshalled == op = "MarshalJSON" /\ \E a \in Objs : CallUnmarshalJSON(a, text, recv)

NamespaceCall == \E a \in Objs : CallNamespace(a)

ShareVersionCall == \E a \in Objs : CallShareVersion(a)

SignerCall == \E a \in Objs : CallSigner(a)

DataCall == \E a \in Objs : CallData(a)

DataLenCall == \E a \in Objs : CallDataLen(a)

CompareCall == \E a \in Objs, other \in Objs : CallCompare(a, other)

IsEmptyCall == \E a \in Objs : CallIsEmpty(a)

SortBlobsCall == \E s \in Distinct(Made, MaxObjs) : CallSortBlobs(s)

ToSharesCall == \E a \in Made, fault \in Faults : CallToShares(a, fault)

Next ==
  \/ DeclareBlob
  \/ NewBlobCall
  \/ NewV0BlobCall
  \/ NewV1BlobCall
  \/ NewBlobFromProtoCall
  \/ UnmarshalBlobCall
  \/ UnmarshalMarshalled
  \/ MarshalCall
  \/ MarshalJSONCall
  \/ UnmarshalJSONCall
  \/ UnmarshalJSONMarshalled
  \/ NamespaceCall
  \/ ShareVersionCall
  \/ SignerCall
  \/ DataCall
  \/ DataLenCall
  \/ CompareCall
  \/ IsEmptyCall
  \/ SortBlobsCall
  \/ ToSharesCall

Spec == Init /\ [][Next]_vars

-----------------------------------------------------------------------------
(* One call of a constructing or decoding operation, on any argument, with *)
(* one object in existence to be the receiver of UnmarshalJSON.            *)

Receivers ==
  {ZeroBlob, NewV0Blob(NsB, Bytes(<<7, 8>>)).blob.v,
   NewV1Blob(NsB, Bytes(<<7, 8>>), Bytes(Rep(3, SignerSize))).blob.v}

InitCalls ==
  /\ \E r \in Receivers : heap = <<r>> /\ made = <<r # ZeroBlob>>
  /\ prev = heap
  /\ op = "init"
  /\ recv = 0
  /\ src = 0
  /\ arg = NoArg
  /\ pb = NilProto
  /\ wire = NoMsg
  /\ text = NoMsg
  /\ ret = NoRet
  /\ val = NoVal
  /\ blobs = <<>>
  /\ before = <<>>
  /\ splitters = 0
  /\ splitter = NoSplitter
  /\ shares = NilShares

NewBlobAny ==
  /\ op = "init"
  /\ \E ns \in AllNamespaces, d \in AllData, v \in AllShareVersions, sg \in AllSigners :
       CallNewBlob(ns, d, v, sg)

NewV0BlobAny ==
  /\ op = "init"
  /\ \E ns \in AllNamespaces, d \in AllData : CallNewV0Blob(ns, d)

NewV1BlobAny ==
  /\ op = "init"
  /\ \E ns \in AllNamespaces, d \in AllData, sg \in AllSigners : CallNewV1Blob(ns, d, sg)

NewBlobFromProtoAny ==
  /\ op = "init"
  /\ \E p \in {NilProto} \cup {ProtoRef(x) : x \in AllProtos} : CallNewBlobFromProto(p)

UnmarshalBlobAny ==
  /\ op = "init"
  /\ \E m \in AllPayloads : CallUnmarshalBlob(m, 0)

UnmarshalJSONAny ==
  /\ op = "init"
  /\ \E a \in Objs, m \in AllTexts : CallUnmarshalJSON(a, m, 0)

NextCalls ==
  \/ NewBlobAny
  \/ NewV0BlobAny
  \/ NewV1BlobAny
  \/ NewBlobFromProtoAny
  \/ UnmarshalBlobAny
  \/ UnmarshalJSONAny

SpecCalls == InitCalls /\ [][NextCalls]_vars

-----------------------------------------------------------------------------
(* One call of SortBlobs on any slice over MaxBlobs constructed blobs.     *)

InitSort ==
  /\ heap \in [1..MaxBlobs -> SortedBlobs]
  /\ made = [a \in 1..MaxBlobs |-> TRUE]
  /\ prev = heap
  /\ op = "init"
  /\ recv = 0
  /\ src = 0
  /\ arg = NoArg
  /\ pb = NilProto
  /\ wire = NoMsg
  /\ text = NoMsg
  /\ ret = NoRet
  /\ val = NoVal
  /\ blobs = <<>>
  /\ before = <<>>
  /\ splitters = 0
  /\ splitter = NoSplitter
  /\ shares = NilShares

SortBlobsAny ==
  /\ op = "init"
  /\ \E s \in Slices(Objs, MaxBlobs) : CallSortBlobs(s)

NextSort == SortBlobsAny

SpecSort == InitSort /\ [][NextSort]_vars

-----------------------------------------------------------------------------
(* Marshal / Unmarshal round trips of any constructed blob: the blob is    *)
(* object 1, and a decode is given the encoding the call before it made.   *)

InitRoundTrip ==
  /\ \E b \in AllBlobs : heap = <<b>>
  /\ made = <<TRUE>>
  /\ prev = heap
  /\ op = "init"
  /\ recv = 0
  /\ src = 0
  /\ arg = NoArg
  /\ pb = NilProto
  /\ wire = NoMsg
  /\ text = NoMsg
  /\ ret = NoRet
  /\ val = NoVal
  /\ blobs = <<>>
  /\ before = <<>>
  /\ splitters = 0
  /\ splitter = NoSplitter
  /\ shares = NilShares

NextRoundTrip ==
  \/ DeclareBlob
  \/ MarshalCall
  \/ UnmarshalMarshalled
  \/ MarshalJSONCall
  \/ UnmarshalJSONMarshalled

SpecRoundTrip == InitRoundTrip /\ [][NextRoundTrip]_vars

-----------------------------------------------------------------------------
(* Properties. *)

Constructors == {"NewBlob", "NewV0Blob", "NewV1Blob"}
Decoders == {"NewBlobFromProto", "UnmarshalBlob"}

\* C1: NewBlob returns the error of the first check that fails, in the order
\* data empty, namespace empty, namespace version, share version / signer,
\* and returns a blob exactly when no check fails.
C1_ValidationOrder ==
  op \in Constructors =>
    LET dataOk == len(arg.data) > 0
        nsOk == dataOk /\ arg.ns.data # <<>>
        versionOk == nsOk /\ arg.ns.data[1] = NamespaceVersionZero
        failed ==
          \/ ~versionOk
          \/ arg.shareVersion = 0 /\ ~arg.signer.nil
          \/ arg.shareVersion = 1 /\ len(arg.signer) # SignerSize
          \/ arg.shareVersion \notin {0, 1}
    IN /\ ~dataOk => ret.err = EmptyDataError
       /\ dataOk /\ ~nsOk => ret.err = EmptyNamespaceError
       /\ nsOk /\ ~versionOk => ret.err = UnsupportedNamespaceVersionError
       /\ versionOk /\ arg.shareVersion = 0 /\ ~arg.signer.nil
            => ret.err = SignerNotAllowedError
       /\ versionOk /\ arg.shareVersion = 1 /\ len(arg.signer) # SignerSize
            => ret.err = SignerSizeError
       /\ versionOk /\ arg.shareVersion \notin {0, 1}
            => ret.err = UnsupportedShareVersionError
       /\ failed <=> ret.err # NoErr
       /\ ~failed <=> ret.blob # 0

\* a call with empty data, an empty namespace, an unsupported share version
\* and a signer, which fails on the data
C1_Witness ==
  /\ op = "NewBlob"
  /\ len(arg.data) = 0
  /\ arg.ns = EmptyNamespace
  /\ arg.shareVersion = 2
  /\ ~arg.signer.nil
  /\ ret.err = EmptyDataError

FieldInvariants(b) ==
  /\ len(b.data) >= 1
  /\ b.namespace.data # <<>>
  /\ b.namespace.data[1] = NamespaceVersionZero
  /\ b.shareVersion \in {0, 1}
  /\ b.shareVersion = 0 => b.signer.nil
  /\ b.shareVersion = 1 => len(b.signer) = SignerSize

\* C2: every blob a successful constructor or decoder call returns, and the
\* receiver of a successful UnmarshalJSON, satisfies the four field invariants;
\* a record that breaks one of them is rejected by NewBlobFromProto.
C2_FieldInvariants ==
  /\ op \in Constructors \cup Decoders /\ ret.blob # 0
       => made[ret.blob] /\ FieldInvariants(heap[ret.blob])
  /\ op = "UnmarshalJSON" /\ ret.err = NoErr
       => made[recv] /\ FieldInvariants(heap[recv])
  /\ op = "NewBlobFromProto" /\ ~pb.nil
       /\ \/ len(pb.v.Data) = 0
          \/ pb.v.NamespaceVersion # NamespaceVersionZero
          \/ pb.v.ShareVersion \notin {0, 1}
          \/ pb.v.ShareVersion = 0 /\ ~pb.v.Signer.nil
          \/ pb.v.ShareVersion = 1 /\ len(pb.v.Signer) # SignerSize
       => ret.blob = 0 /\ ret.err # NoErr

\* a JSON document decoded into the receiver as a share version 1 blob
C2_Witness ==
  /\ op = "UnmarshalJSON"
  /\ ret.err = NoErr
  /\ heap[recv].shareVersion = 1
  /\ len(heap[recv].signer) = SignerSize

\* C3: decoding the encoding of a constructed blob succeeds and gives a blob
\* equal to it in every field, for Marshal / UnmarshalBlob and for MarshalJSON /
\* UnmarshalJSON.
C3_RoundTrip ==
  [][ /\ op' = "UnmarshalBlob" /\ src' # 0
           => /\ ret'.err = NoErr
              /\ ret'.blob # 0
              /\ heap'[ret'.blob] = heap[src']
      /\ op' = "UnmarshalJSON" /\ src' # 0
           => /\ ret'.err = NoErr
              /\ heap'[recv'] = heap[src'] ]_vars

\* the JSON encoding of a share version 0 blob decoded into another object
C3_Witness ==
  /\ op = "UnmarshalJSON"
  /\ src # 0
  /\ recv # src
  /\ heap[src].shareVersion = 0
  /\ heap[src].signer.nil
  /\ heap[recv] = heap[src]

\* C4: NewBlobFromProto answers a namespace version above NamespaceVersionMax
\* with NamespaceVersionRangeError, otherwise a share version above
\* MaxShareVersion with ShareVersionRangeError, whatever the other fields are;
\* a blob it returns has the versions of the record, not their low 8 bits.
C4_RangeChecks ==
  op = "NewBlobFromProto" /\ ~pb.nil =>
    /\ pb.v.NamespaceVersion > NamespaceVersionMax
         => ret.err = NamespaceVersionRangeError /\ ret.blob = 0
    /\ pb.v.NamespaceVersion <= NamespaceVersionMax /\ pb.v.ShareVersion > MaxShareVersion
         => ret.err = ShareVersionRangeError /\ ret.blob = 0
    /\ ret.blob # 0
         => /\ heap[ret.blob].shareVersion = pb.v.ShareVersion
            /\ heap[ret.blob].namespace.data[1] = pb.v.NamespaceVersion

\* a record that is valid but for its share version 256
C4_Witness ==
  /\ op = "NewBlobFromProto"
  /\ ~pb.nil
  /\ pb.v.ShareVersion = 256
  /\ pb.v.NamespaceVersion = 0
  /\ pb.v.NamespaceId = Bytes(IdA)
  /\ pb.v.Data = Bytes(<<7>>)
  /\ pb.v.Signer = NilBytes
  /\ ret.err = ShareVersionRangeError

\* C5: SortBlobs leaves the slice non-decreasing by namespace, and for every
\* namespace the blobs of that namespace are the same and in the same order as
\* before the call (so the slice is a permutation, and the sort is stable).
C5_StableSort ==
  op = "SortBlobs" =>
    /\ Len(blobs) = Len(before)
    /\ \A i, j \in DOMAIN blobs :
         i < j => NamespaceCompare(heap[blobs[i]].namespace, heap[blobs[j]].namespace) <= 0
    /\ \A a \in Objs :
         LET Same(x) == heap[x].namespace = heap[a].namespace
         IN SelectSeq(blobs, Same) = SelectSeq(before, Same)

\* a slice that the sort changes and that holds two different blobs of one
\* namespace with a blob of a smaller namespace behind them
C5_Witness ==
  /\ op = "SortBlobs"
  /\ blobs # before
  /\ \E i, j, k \in DOMAIN before :
       /\ i < j /\ j < k
       /\ heap[before[i]].namespace = heap[before[j]].namespace
       /\ heap[before[i]] # heap[before[j]]
       /\ NamespaceCompare(heap[before[k]].namespace, heap[before[i]].namespace) < 0

C7_ToShares ==
  [][op' = "ToShares" =>
       /\ splitter'.id > splitters
       /\ splitter'.writes = 1
       /\ splitter'.err # NoErr
            => ret'.err = splitter'.err /\ shares'.nil /\ splitter'.exports = 0
       /\ splitter'.err = NoErr
            => /\ ret'.err = NoErr
               /\ ~shares'.nil
               /\ shares'.s = splitter'.shares
               /\ shares'.s = SharesOf(heap[recv'])
               /\ splitter'.exports = 1
       /\ heap' = heap]_vars

\* the second ToShares call, in which Write fails
C7_Witness ==
  /\ op = "ToShares"
  /\ splitters = 2
  /\ splitter.id = 2
  /\ ret.err # NoErr
  /\ shares.nil

\* C8: IsEmpty is true exactly of a blob with no data; no constructed blob is
\* empty, and an empty blob is the zero value in every field.
C8_EmptyIsZero ==
  /\ op = "IsEmpty" => (val.flag <=> len(heap[recv].data) = 0)
  /\ \A a \in Objs :
       /\ made[a] => len(heap[a].data) > 0
       /\ len(heap[a].data) = 0 => heap[a] = ZeroBlob

\* a declared blob that a failed UnmarshalJSON left empty
C8_Witness ==
  /\ op = "UnmarshalJSON"
  /\ ret.err # NoErr
  /\ ~text.malformed
  /\ ~made[recv]
  /\ heap[recv] = ZeroBlob
  /\ \E a \in Objs : made[a]

\* C9: no constructing or decoding call aborts: each returns a blob or an error.
C9_NoPanic ==
  op \in Constructors \cup Decoders \cup {"UnmarshalJSON"} => ~ret.panic

\* C10: a constructor or decoder call that returns an error returns no blob,
\* and an UnmarshalJSON call that returns an error leaves its receiver, and
\* every other blob, as it was.
C10_AllOrNothing ==
  [][ /\ op' \in Constructors \cup Decoders /\ ret'.err # NoErr
           => ret'.blob = 0 /\ heap' = heap /\ made' = made
      /\ op' = "UnmarshalJSON" /\ ret'.err # NoErr
           => heap' = heap /\ made' = made ]_vars

\* a document that parses but fails validation, given to a constructed receiver
C10_Witness ==
  /\ op = "UnmarshalJSON"
  /\ made[recv]
  /\ ~text.malformed
  /\ ret.err = SignerNotAllowedError
  /\ heap[recv] = prev[recv]
  /\ heap[recv].shareVersion = 1

====
